---- MODULE Spec2Model ----
(***************************************************************************)
(* Classroom Allocator: the browser-side room store, adjacency graph,      *)
(* booking ledger, allocator and conflict detector.                        *)
(*                                                                         *)
(* Representation.  A JavaScript array is a sequence.  The Map roomsGraph  *)
(* is the sequence of its values in key insertion order; every value       *)
(* carries its key as room_id (the node is a spread of the room).  Times   *)
(* "HH:MM" are zero-padded strings of one width, so their string order is  *)
(* the order of the integers used here; dates are only compared for        *)
(* equality.  A localStorage item is the empty sequence when absent and a  *)
(* one-element sequence holding the serialised value otherwise.  Fields    *)
(* that no modelled code reads (floor, course_name, instructor, the        *)
(* timestamps, the interpolated parts of log messages) and the DOM are     *)
(* left out.  Capacities are positive integers, so the quotient            *)
(* capacityDiff / maxCapacity <= 0.25 is the integer comparison            *)
(* 4 * capacityDiff <= maxCapacity.                                        *)
(***************************************************************************)
EXTENDS Integers, Sequences, FiniteSets, TLC

VARIABLES
    allRooms,        \* the Room Store
    roomsGraph,      \* the Map room_id -> node, in insertion order
    schedulesArray,  \* the Booking Ledger
    logsQueue,       \* the log queue, newest first
    localStorage,    \* the items "rooms", "schedules", "logs"
    pending,         \* handleAllocationSubmit suspended at its await
    scheduleFetches, \* loadSchedule calls whose fetch has not completed
    server,          \* what the data source holds: schedules, rooms, logs
    now,             \* Date.now(), in milliseconds
    initPc,          \* the await at which initializeApp stands
    graphVisualizer  \* the nodes and edges of the RoomGraphVisualizer

vars == <<allRooms, roomsGraph, schedulesArray, logsQueue, localStorage,
          pending, scheduleFetches, server, now, initPc, graphVisualizer>>

----------------------------------------------------------------------------
(* Bounds of the exploration                                               *)

MaxRooms == 3        \* rooms added to the store when the graph is explored
MaxAllocRooms == 2   \* rooms added to the store when allocation is explored
MaxTime == 2         \* times are 0 .. MaxTime
MaxLogs == 6         \* log entries written by the explored handlers
MaxFetches == 1      \* schedule fetches in flight
MaxLedger == 2       \* records in the ledger the data source holds
MaxLedgerTime == 3   \* the times of those records are 0 .. MaxLedgerTime
MaxLogCalls == 102   \* consecutive addLog calls
MaxOldLogs == 2      \* entries in the queue before those calls
MaxServerLogs == 101 \* entries in the log the data source holds
MaxSeedLogs == 3     \* log entries up to which rooms are added after start-up
MaxNow == 1          \* the clock runs from 0 to MaxNow milliseconds

LogLimit == 100      \* addLog keeps the last 100 entries

RoomIds == {"X", "Y", "Z"}
Buildings == {"A", "B"}
Capacities == {3, 4, 8}
FacilityNames == {"projector"}
Times == 0 .. MaxTime
Dates == {"d1", "d2"}

FacilitySets == [FacilityNames -> BOOLEAN]

Rooms == [room_id : RoomIds, building : Buildings, capacity : Capacities,
          facilities : FacilitySets]

Range(s) == {s[i] : i \in 1 .. Len(s)}

----------------------------------------------------------------------------
(* buildRoomsGraph                                                         *)

\* Array.prototype.includes
Includes(s, x) == \E i \in 1 .. Len(s) : s[i] = x

\* Map.prototype.has / get / set on the insertion-ordered Map
MapHas(graph, key) == \E i \in 1 .. Len(graph) : graph[i].room_id = key

MapIndex(graph, key) == CHOOSE i \in 1 .. Len(graph) : graph[i].room_id = key

MapGet(graph, key) == graph[MapIndex(graph, key)]

MapSet(graph, key, value) ==
    IF MapHas(graph, key)
    THEN [graph EXCEPT ![MapIndex(graph, key)] = value]
    ELSE Append(graph, value)

\* node.adjacentRooms.push(id) on the node stored under key
PushAdjacent(graph, key, id) ==
    [graph EXCEPT ![MapIndex(graph, key)].adjacentRooms = Append(@, id)]

MakeNode(room) ==
    [room_id |-> room.room_id, building |-> room.building,
     capacity |-> room.capacity, facilities |-> room.facilities,
     adjacentRooms |-> <<>>]

RECURSIVE AddNodes(_, _, _)
AddNodes(graph, rooms, k) ==
    IF k > Len(rooms) THEN graph
    ELSE AddNodes(MapSet(graph, rooms[k].room_id, MakeNode(rooms[k])), rooms, k + 1)

Abs(x) == IF x < 0 THEN -x ELSE x

Max(a, b) == IF a >= b THEN a ELSE b

SameBuilding(room1, room2) == room1.building = room2.building

\* < in place of <=
SimilarCapacity_Strict(room1, room2) ==
    4 * Abs(room1.capacity - room2.capacity) < Max(room1.capacity, room2.capacity)

SimilarCapacity(room1, room2) ==
    4 * Abs(room1.capacity - room2.capacity) <= Max(room1.capacity, room2.capacity)

\* the same-building branch of the pair loop
ConnectBuilding(graph, room1, room2) ==
    IF SameBuilding(room1, room2)
    THEN PushAdjacent(PushAdjacent(graph, room1.room_id, room2.room_id),
                      room2.room_id, room1.room_id)
    ELSE graph

PushIfAbsent(graph, key, id) ==
    IF Includes(MapGet(graph, key).adjacentRooms, id)
    THEN graph
    ELSE PushAdjacent(graph, key, id)

\* the similar-capacity branch of the pair loop
ConnectCapacity(graph, room1, room2) ==
    IF SimilarCapacity(room1, room2)
    THEN PushIfAbsent(PushIfAbsent(graph, room1.room_id, room2.room_id),
                      room2.room_id, room1.room_id)
    ELSE graph

\* the body of the inner forEach for the pair (i, j)
ConnectPair(graph, rooms, i, j) ==
    IF i >= j THEN graph
    ELSE ConnectCapacity(ConnectBuilding(graph, rooms[i], rooms[j]),
                         rooms[i], rooms[j])

\* the two nested forEach loops, pair number k of Len(rooms)^2 in loop order
\* (a graph without nodes belongs to a store without rooms, which has no
\* pair; the test has the graph of the pairs so far computed at each pair)
RECURSIVE AddEdges(_, _, _)
AddEdges(graph, rooms, k) ==
    LET n == Len(rooms) IN
    IF k >= n * n \/ Len(graph) = 0 THEN graph
    ELSE AddEdges(ConnectPair(graph, rooms, (k \div n) + 1, (k % n) + 1),
                  rooms, k + 1)

buildRoomsGraph(rooms) == AddEdges(AddNodes(<<>>, rooms, 1), rooms, 0)

----------------------------------------------------------------------------
(* checkAvailability, allocateRoom, detectConflicts                        *)

\* the overlap test of checkAvailability
\* the request's start compared with the booking's start
TimeOverlap_WrongField(startTime, endTime, booking) ==
    ~(endTime <= booking.start_time \/ startTime >= booking.start_time)

\* closed intervals in place of half-open ones
TimeOverlap_Closed(startTime, endTime, booking) ==
    ~(endTime < booking.start_time \/ startTime > booking.end_time)

TimeOverlap(startTime, endTime, booking) ==
    ~(endTime <= booking.start_time \/ startTime >= booking.end_time)

checkAvailability(roomId, date, startTime, endTime) ==
    ~\E i \in 1 .. Len(schedulesArray) :
        /\ schedulesArray[i].room.room_id = roomId
        /\ schedulesArray[i].date = date
        /\ TimeOverlap(startTime, endTime, schedulesArray[i])

\* a comparison turned round
CapacityOk_Reversed(room, requirements) == ~(room.capacity > requirements.capacity)

CapacityOk(room, requirements) == ~(room.capacity < requirements.capacity)

BuildingOk(room, requirements) ==
    ~(requirements.building # "" /\ room.building # requirements.building)

FacilitiesMatch(room, requirements) ==
    \A f \in DOMAIN requirements.facilities :
        ~(requirements.facilities[f] /\ ~room.facilities[f])

\* the four filters of the loop over roomsGraph
Suitable(room, requirements) ==
    /\ CapacityOk(room, requirements)
    /\ BuildingOk(room, requirements)
    /\ FacilitiesMatch(room, requirements)
    /\ checkAvailability(room.room_id, requirements.date,
                         requirements.start_time, requirements.end_time)

SuitableRooms(requirements) ==
    SelectSeq(roomsGraph, LAMBDA room : Suitable(room, requirements))

\* the reducer: keep best unless current is strictly closer
Closer(best, current, requirements) ==
    IF Abs(current.capacity - requirements.capacity)
         < Abs(best.capacity - requirements.capacity)
    THEN current ELSE best

RECURSIVE Reduce(_, _, _, _)
Reduce(rooms, best, k, requirements) ==
    IF k > Len(rooms) THEN best
    ELSE Reduce(rooms, Closer(best, rooms[k], requirements), k + 1, requirements)

\* the value allocateRoom resolves to; room is <<>> on failure
allocateRoom(requirements, bookingId) ==
    LET suitableRooms == SuitableRooms(requirements) IN
    IF Len(suitableRooms) = 0
    THEN [success |-> FALSE, room |-> <<>>, booking_id |-> ""]
    ELSE [success |-> TRUE,
          room |-> <<Reduce(suitableRooms, suitableRooms[1], 2, requirements)>>,
          booking_id |-> bookingId]

\* the overlap test of detectConflicts
BookingsOverlap(b1, b2) ==
    ~(b1.end_time <= b2.start_time \/ b2.end_time <= b1.start_time)

ConflictPair(ledger, i, j) ==
    /\ ledger[i].room.room_id = ledger[j].room.room_id
    /\ ledger[i].date = ledger[j].date
    /\ BookingsOverlap(ledger[i], ledger[j])

\* the i < j double loop; the result lists the index pairs in loop order
RECURSIVE ConflictScan(_, _, _)
ConflictScan(ledger, k, conflicts) ==
    LET n == Len(ledger)
        i == (k \div n) + 1
        j == (k % n) + 1
    IN  IF k >= n * n THEN conflicts
        ELSE ConflictScan(ledger, k + 1,
                 IF i < j /\ ConflictPair(ledger, i, j)
                 THEN Append(conflicts, [booking1 |-> i, booking2 |-> j])
                 ELSE conflicts)

detectConflicts == ConflictScan(schedulesArray, 0, <<>>)

----------------------------------------------------------------------------
(* addLog and the event handlers                                           *)

\* JSON.stringify into an item, JSON.parse out of it
Stringify(value) == <<value>>

Parse(item) == item[1]

\* a slip: shift where the code has pop, so the newest entry is dropped
Unshift_Shift(queue, type, message) ==
    LET q == <<[type |-> type, message |-> message]>> \o queue IN
    IF Len(q) > LogLimit THEN SubSeq(q, 2, Len(q)) ELSE q

\* unshift, then pop when more than LogLimit entries are held
Unshift(queue, type, message) ==
    LET q == <<[type |-> type, message |-> message]>> \o queue IN
    IF Len(q) > LogLimit THEN SubSeq(q, 1, Len(q) - 1) ELSE q

\* addLog: the queue and its mirror in localStorage
addLog(type, message) ==
    /\ logsQueue' = Unshift(logsQueue, type, message)
    /\ localStorage' = [localStorage EXCEPT !.logs = Stringify(logsQueue')]

\* the continuation taken for a task: a second submission is handled while
\* the first is suspended
handleAllocationSubmit_Interleaved(formData, bookingId) ==
    IF formData.start_time >= formData.end_time
    THEN UNCHANGED vars
    ELSE /\ addLog("info", "Processing allocation request")
         /\ pending' =
                pending \o <<[formData |-> formData,
                              result |-> allocateRoom(formData, bookingId)]>>
         /\ UNCHANGED <<allRooms, roomsGraph, schedulesArray, scheduleFetches,
                        server, now, initPc, graphVisualizer>>

\* a slip: the time check is missing
handleAllocationSubmit_NoTimeCheck(formData, bookingId) ==
    /\ pending = <<>>
    /\ addLog("info", "Processing allocation request")
    /\ pending' = <<[formData |-> formData,
                     result |-> allocateRoom(formData, bookingId)]>>
    /\ UNCHANGED <<allRooms, roomsGraph, schedulesArray, scheduleFetches,
                   server, now, initPc, graphVisualizer>>

\* handleAllocationSubmit up to its await: the time check, then the whole of
\* allocateRoom (an async function without an await runs synchronously)
handleAllocationSubmit(formData, bookingId) ==
    /\ pending = <<>>
    /\ IF formData.start_time >= formData.end_time
       THEN UNCHANGED vars
       ELSE /\ addLog("info", "Processing allocation request")
            /\ pending' = <<[formData |-> formData,
                             result |-> allocateRoom(formData, bookingId)]>>
            /\ UNCHANGED <<allRooms, roomsGraph, schedulesArray,
                           scheduleFetches, server, now, initPc,
                           graphVisualizer>>

\* the BookingRecord pushed on success; of the request it keeps the fields
\* that the code reads back
BookingRecord(formData, result) ==
    [date |-> formData.date, start_time |-> formData.start_time,
     end_time |-> formData.end_time, room |-> result.room[1],
     booking_id |-> result.booking_id]

\* handleAllocationSubmit after its await: a microtask, so it runs before any
\* other event handler
AllocationResume ==
    /\ pending # <<>>
    /\ LET formData == pending[1].formData
           result == pending[1].result
       IN  IF result.success
           THEN /\ schedulesArray' =
                       Append(schedulesArray, BookingRecord(formData, result))
                /\ logsQueue' = Unshift(logsQueue, "success", "Successfully allocated")
                /\ localStorage' =
                       [localStorage EXCEPT !.schedules = Stringify(schedulesArray'),
                                            !.logs = Stringify(logsQueue')]
           ELSE /\ addLog("error", "Failed to allocate room")
                /\ UNCHANGED schedulesArray
    /\ pending' = <<>>
    /\ UNCHANGED <<allRooms, roomsGraph, scheduleFetches, server, now, initPc,
                   graphVisualizer>>

\* a slip: the duplicate test also compares the capacity
handleAddRoomSubmit_CapacityToo(newRoom) ==
    /\ pending = <<>>
    /\ IF \E i \in 1 .. Len(allRooms) :
              /\ allRooms[i].room_id = newRoom.room_id
              /\ allRooms[i].building = newRoom.building
              /\ allRooms[i].capacity = newRoom.capacity
       THEN UNCHANGED vars
       ELSE /\ allRooms' = Append(allRooms, newRoom)
            /\ roomsGraph' = buildRoomsGraph(allRooms')
            /\ logsQueue' = Unshift(logsQueue, "success", "Added new room")
            /\ localStorage' =
                   [localStorage EXCEPT !.rooms = Stringify(allRooms'),
                                        !.logs = Stringify(logsQueue')]
            /\ UNCHANGED <<schedulesArray, pending, scheduleFetches, server,
                           now, initPc, graphVisualizer>>

handleAddRoomSubmit(newRoom) ==
    /\ pending = <<>>
    /\ IF \E i \in 1 .. Len(allRooms) :
              /\ allRooms[i].room_id = newRoom.room_id
              /\ allRooms[i].building = newRoom.building
       THEN UNCHANGED vars
       ELSE /\ allRooms' = Append(allRooms, newRoom)
            /\ roomsGraph' = buildRoomsGraph(allRooms')
            /\ logsQueue' = Unshift(logsQueue, "success", "Added new room")
            /\ localStorage' =
                   [localStorage EXCEPT !.rooms = Stringify(allRooms'),
                                        !.logs = Stringify(logsQueue')]
            /\ UNCHANGED <<schedulesArray, pending, scheduleFetches, server,
                           now, initPc, graphVisualizer>>

\* loadSchedule up to its fetch
loadSchedule ==
    /\ pending = <<>>
    /\ scheduleFetches' = scheduleFetches + 1
    /\ UNCHANGED <<allRooms, roomsGraph, schedulesArray, logsQueue,
                   localStorage, pending, server, now, initPc,
                   graphVisualizer>>

\* loadSchedule from the answer of its fetch on: the data source's schedules
\* when it answered, the cached ones when it failed
LoadedSchedule(ok) ==
    IF ok
    THEN /\ schedulesArray' = server.schedules
         /\ localStorage' =
                [localStorage EXCEPT !.schedules = Stringify(schedulesArray')]
    ELSE /\ schedulesArray' =
                IF localStorage.schedules # <<>>
                THEN Parse(localStorage.schedules)
                ELSE schedulesArray
         /\ UNCHANGED localStorage

loadScheduleDone(ok) ==
    /\ pending = <<>>
    /\ scheduleFetches > 0
    /\ scheduleFetches' = scheduleFetches - 1
    /\ LoadedSchedule(ok)
    /\ UNCHANGED <<allRooms, roomsGraph, logsQueue, pending, server, now,
                   initPc, graphVisualizer>>

\* RoomGraphVisualizer.buildGraph: a node per position of rooms
VisualizerNode(room) ==
    [id |-> room.room_id, building |-> room.building,
     capacity |-> room.capacity, facilities |-> room.facilities,
     adjacentRooms |-> <<>>]

VisualizerPush(nodes, i, id) ==
    [nodes EXCEPT ![i].adjacentRooms = Append(@, id)]

VisualizerPushIfAbsent(nodes, i, id) ==
    IF Includes(nodes[i].adjacentRooms, id)
    THEN nodes
    ELSE VisualizerPush(nodes, i, id)

VisualizerSimilar(room1, room2) ==
    4 * Abs(room1.capacity - room2.capacity)
        <= Max(room1.capacity, room2.capacity)

\* the body of the inner loop for the positions i < j; from and to are the
\* array indices, which count from 0
VisualizerPair(graph, rooms, i, j) ==
    LET room1 == rooms[i]
        room2 == rooms[j]
    IN  IF room1.building = room2.building
        THEN [nodes |-> VisualizerPush(
                            VisualizerPush(graph.nodes, i, room2.room_id),
                            j, room1.room_id),
              edges |-> Append(graph.edges,
                               [from |-> i - 1, to |-> j - 1,
                                type |-> "building"])]
        ELSE IF VisualizerSimilar(room1, room2)
        THEN [nodes |-> VisualizerPushIfAbsent(
                            VisualizerPushIfAbsent(graph.nodes, i,
                                                   room2.room_id),
                            j, room1.room_id),
              edges |-> Append(graph.edges,
                               [from |-> i - 1, to |-> j - 1,
                                type |-> "capacity"])]
        ELSE graph

\* the two nested for loops, pair number k of Len(rooms)^2, of which the
\* pairs with i < j are those the loops visit, in their order
RECURSIVE VisualizerPairs(_, _, _)
VisualizerPairs(graph, rooms, k) ==
    LET n == Len(rooms)
        i == (k \div n) + 1
        j == (k % n) + 1
    IN  IF k >= n * n \/ Len(graph.nodes) = 0 THEN graph
        ELSE VisualizerPairs(IF i < j
                             THEN VisualizerPair(graph, rooms, i, j)
                             ELSE graph,
                             rooms, k + 1)

buildGraph(rooms) ==
    VisualizerPairs([nodes |-> [i \in 1 .. Len(rooms) |->
                                   VisualizerNode(rooms[i])],
                     edges |-> <<>>],
                    rooms, 0)

regenerateGraph ==
    /\ graphVisualizer' = buildGraph(allRooms)
    /\ UNCHANGED <<allRooms, roomsGraph, schedulesArray, logsQueue,
                   localStorage, pending, scheduleFetches, server, now,
                   initPc>>

Sections == {"dashboard", "schedule", "rooms", "graph", "logs"}

\* showSection: of the refreshes loadSchedule and regenerateGraph write to
\* the state
showSection(sectionId) ==
    /\ pending = <<>>
    /\ IF sectionId = "schedule" THEN loadSchedule
       ELSE IF sectionId = "graph" THEN regenerateGraph
       ELSE UNCHANGED vars

\* clearLogs once the user has confirmed
clearLogs ==
    /\ pending = <<>>
    /\ logsQueue' = Unshift(<<>>, "info", "Logs cleared by user")
    /\ localStorage' = [localStorage EXCEPT !.logs = Stringify(logsQueue')]
    /\ UNCHANGED <<allRooms, roomsGraph, schedulesArray, pending,
                   scheduleFetches, server, now, initPc, graphVisualizer>>

\* the assignments of loadLogs, from the answer of its fetch on: the data
\* source's logs when it answered, the cached ones when it failed
LoadedLogs(ok) ==
    IF ok
    THEN /\ logsQueue' = server.logs
         /\ localStorage' = [localStorage EXCEPT !.logs = Stringify(logsQueue')]
    ELSE /\ logsQueue' =
                IF localStorage.logs # <<>>
                THEN Parse(localStorage.logs)
                ELSE logsQueue
         /\ UNCHANGED localStorage

loadLogsDone(ok) ==
    /\ pending = <<>>
    /\ LoadedLogs(ok)
    /\ UNCHANGED <<allRooms, roomsGraph, schedulesArray, pending,
                   scheduleFetches, server, now, initPc, graphVisualizer>>

----------------------------------------------------------------------------
(* Initialization                                                          *)

Facilities(projector, lab, accessible, whiteboard, audio, smartboard) ==
    [projector |-> projector, lab |-> lab, accessible |-> accessible,
     whiteboard |-> whiteboard, audio |-> audio, smartboard |-> smartboard]

SeedRoom(room_id, building, capacity, facilities) ==
    [room_id |-> room_id, building |-> building, capacity |-> capacity,
     facilities |-> facilities]

\* the rooms of initializeSampleDataOffline
SeedRooms ==
    << SeedRoom("101", "Main", 50,
                Facilities(TRUE, FALSE, TRUE, TRUE, TRUE, FALSE)),
       SeedRoom("102", "Main", 30,
                Facilities(TRUE, FALSE, TRUE, TRUE, FALSE, TRUE)),
       SeedRoom("201", "Science", 40,
                Facilities(TRUE, TRUE, FALSE, TRUE, TRUE, FALSE)),
       SeedRoom("301", "Engineering", 60,
                Facilities(TRUE, TRUE, TRUE, TRUE, TRUE, TRUE)),
       SeedRoom("LAB-A", "Science", 25,
                Facilities(TRUE, TRUE, TRUE, FALSE, FALSE, TRUE)),
       SeedRoom("401", "Engineering", 100,
                Facilities(TRUE, FALSE, TRUE, TRUE, TRUE, TRUE)),
       SeedRoom("AUD-1", "Arts", 200,
                Facilities(TRUE, FALSE, TRUE, FALSE, TRUE, FALSE)) >>

\* the queue after the addLog of initializeSampleDataOffline
SeedLogged ==
    Unshift(logsQueue, "info",
            "Initialized with sample classroom data (offline mode)")

initializeSampleDataOffline ==
    /\ allRooms' = SeedRooms
    /\ roomsGraph' = buildRoomsGraph(allRooms')
    /\ logsQueue' = SeedLogged
    /\ localStorage' = [localStorage EXCEPT !.rooms = Stringify(allRooms'),
                                            !.logs = Stringify(logsQueue')]

\* initializeOfflineMode; the three items are read before anything is
\* written, so the saved logs replace the queue that the seeding logged to
initializeOfflineMode ==
    LET savedRooms == localStorage.rooms
        savedSchedules == localStorage.schedules
        savedLogs == localStorage.logs
    IN  /\ allRooms' =
               IF savedRooms # <<>> THEN Parse(savedRooms) ELSE SeedRooms
        /\ roomsGraph' = buildRoomsGraph(allRooms')
        /\ localStorage' =
               IF savedRooms # <<>>
               THEN localStorage
               ELSE [localStorage EXCEPT !.rooms = Stringify(SeedRooms),
                                         !.logs = Stringify(SeedLogged)]
        /\ schedulesArray' =
               IF savedSchedules # <<>>
               THEN Parse(savedSchedules)
               ELSE schedulesArray
        /\ logsQueue' =
               IF savedLogs # <<>> THEN Parse(savedLogs)
               ELSE IF savedRooms # <<>> THEN logsQueue
               ELSE SeedLogged

\* the assignments of loadRooms, from the answer of its fetch on
LoadedRooms(ok) ==
    /\ IF ok
       THEN /\ allRooms' = server.rooms
            /\ localStorage' =
                   [localStorage EXCEPT !.rooms = Stringify(allRooms')]
       ELSE /\ allRooms' =
                   IF localStorage.rooms # <<>>
                   THEN Parse(localStorage.rooms)
                   ELSE allRooms
            /\ UNCHANGED localStorage
    /\ roomsGraph' = buildRoomsGraph(allRooms')

\* initializeApp, one action for each await it resumes from.
\* await loadRooms()
InitRooms(ok) ==
    /\ initPc = "loadRooms"
    /\ LoadedRooms(ok)
    /\ initPc' = "loadSchedule"
    /\ UNCHANGED <<schedulesArray, logsQueue, pending, scheduleFetches,
                   server, now, graphVisualizer>>

\* await loadSchedule()
InitSchedule(ok) ==
    /\ initPc = "loadSchedule"
    /\ LoadedSchedule(ok)
    /\ initPc' = "loadLogs"
    /\ UNCHANGED <<allRooms, roomsGraph, logsQueue, pending, scheduleFetches,
                   server, now, graphVisualizer>>

\* await loadLogs()
InitLogs(ok) ==
    /\ initPc = "loadLogs"
    /\ LoadedLogs(ok)
    /\ initPc' = "dashboard"
    /\ UNCHANGED <<allRooms, roomsGraph, schedulesArray, pending,
                   scheduleFetches, server, now, graphVisualizer>>

\* updateDashboard, buildRoomsGraph and the test for an empty store, which
\* run in the turn of InitLogs; when updateDashboard throws (rendered is
\* false) the catch block runs initializeOfflineMode
InitDashboard(rendered) ==
    /\ initPc = "dashboard"
    /\ IF rendered
       THEN /\ roomsGraph' = buildRoomsGraph(allRooms)
            /\ initPc' = IF Len(allRooms) = 0 THEN "reset" ELSE "done"
            /\ UNCHANGED <<allRooms, schedulesArray, logsQueue, localStorage>>
       ELSE /\ initializeOfflineMode
            /\ initPc' = "done"
    /\ UNCHANGED <<pending, scheduleFetches, server, now, graphVisualizer>>

ResetOutcomes == {"failed", "notOk", "ok"}

\* what the data source holds after it has served the reset request
ServerReset == [server EXCEPT !.rooms = SeedRooms]

\* initializeSampleData from the answer of its fetch on
InitReset(outcome) ==
    /\ initPc = "reset"
    /\ IF outcome = "failed"
       THEN /\ initializeSampleDataOffline
            /\ initPc' = "done"
            /\ UNCHANGED server
       ELSE IF outcome = "notOk"
       THEN /\ initPc' = "done"
            /\ UNCHANGED <<allRooms, roomsGraph, logsQueue, localStorage,
                           server>>
       ELSE /\ initPc' = "reloadRooms"
            /\ server' = ServerReset
            /\ UNCHANGED <<allRooms, roomsGraph, logsQueue, localStorage>>
    /\ UNCHANGED <<schedulesArray, pending, scheduleFetches, now,
                   graphVisualizer>>

\* initializeSampleData from its await loadRooms() on
InitReloadRooms(ok) ==
    /\ initPc = "reloadRooms"
    /\ IF ok
       THEN /\ allRooms' = server.rooms
            /\ logsQueue' = Unshift(logsQueue, "info",
                                    "Initialized with sample data from server")
            /\ localStorage' =
                   [localStorage EXCEPT !.rooms = Stringify(allRooms'),
                                        !.logs = Stringify(logsQueue')]
       ELSE /\ allRooms' =
                   IF localStorage.rooms # <<>>
                   THEN Parse(localStorage.rooms)
                   ELSE allRooms
            /\ addLog("info", "Initialized with sample data from server")
    /\ roomsGraph' = buildRoomsGraph(allRooms')
    /\ initPc' = "done"
    /\ UNCHANGED <<schedulesArray, pending, scheduleFetches, server, now,
                   graphVisualizer>>

----------------------------------------------------------------------------
(* Specifications                                                         *)

EmptyStorage == [rooms |-> <<>>, schedules |-> <<>>, logs |-> <<>>]

\* the state after the script has loaded, with a fresh localStorage
Fresh ==
    /\ allRooms = <<>>
    /\ roomsGraph = <<>>
    /\ schedulesArray = <<>>
    /\ logsQueue = <<>>
    /\ localStorage = EmptyStorage
    /\ pending = <<>>
    /\ scheduleFetches = 0
    /\ now = 0
    /\ initPc = "done"
    /\ graphVisualizer = [nodes |-> <<>>, edges |-> <<>>]

\* Allocation: rooms are added by the add-room form and bookings are made by
\* the allocation form; the data source holds no schedule.
AllocRooms ==
    {r \in Rooms : /\ r.room_id \in {"X", "Y"}
                   /\ r.capacity >= 4
                   /\ r.facilities["projector"] = (r.capacity = 8)}

Requests ==
    [date : Dates, start_time : Times, end_time : Times, capacity : {4, 8},
     building : Buildings \cup {""}, facilities : FacilitySets]

BookingIds == {"BK1"}

InitAlloc == Fresh /\ server = [schedules |-> <<>>]

AddRoomStep ==
    /\ Len(allRooms) < MaxAllocRooms
    /\ Len(logsQueue) < MaxLogs
    /\ \E newRoom \in AllocRooms : handleAddRoomSubmit(newRoom)

SubmitStep ==
    /\ Len(logsQueue) + 1 < MaxLogs
    /\ \E formData \in Requests, bookingId \in BookingIds :
           handleAllocationSubmit(formData, bookingId)

NextAlloc == AddRoomStep \/ SubmitStep \/ AllocationResume

SpecAlloc == InitAlloc /\ [][NextAlloc]_vars

\* The graph: rooms are added by the add-room form.
GraphRooms == {r \in Rooms : \A f \in FacilityNames : ~r.facilities[f]}

InitGraph == Fresh /\ server = [schedules |-> <<>>]

NextGraph ==
    /\ Len(allRooms) < MaxRooms
    /\ \E newRoom \in GraphRooms : handleAddRoomSubmit(newRoom)

SpecGraph == InitGraph /\ [][NextGraph]_vars

\* The ledger: the data source holds any short ledger, which loadSchedule
\* fetches.
LedgerTimes == 0 .. MaxLedgerTime

LedgerRooms ==
    {MakeNode(r) : r \in {r \in GraphRooms : r.capacity = 4 /\ r.room_id = "X"}}

LedgerRecords ==
    {b \in [date : Dates, start_time : LedgerTimes, end_time : LedgerTimes,
            room : LedgerRooms, booking_id : BookingIds] :
        b.start_time < b.end_time}

ServerLedgers == UNION {[1 .. n -> LedgerRecords] : n \in 0 .. MaxLedger}

InitLedger == Fresh /\ server \in [schedules : ServerLedgers]

NextLedger ==
    \/ scheduleFetches < MaxFetches /\ loadSchedule
    \/ \E ok \in BOOLEAN : loadScheduleDone(ok)

SpecLedger == InitLedger /\ [][NextLedger]_vars

\* The log queue under consecutive addLog calls: loadLogs puts the data
\* source's entries, none or a few, into the queue, then each call is given
\* the time of the call as its message and the clock ticks.
OldLogs(n) == [k \in 1 .. n |-> [type |-> "info", message |-> 0 - k]]

InitLogQueue ==
    /\ Fresh
    /\ \E n \in 0 .. MaxOldLogs :
           server = [schedules |-> <<>>, rooms |-> <<>>, logs |-> OldLogs(n)]

LogCallStep ==
    /\ now < MaxLogCalls
    /\ addLog("info", now + 1)
    /\ now' = now + 1
    /\ UNCHANGED <<allRooms, roomsGraph, schedulesArray, pending,
                   scheduleFetches, server, initPc, graphVisualizer>>

NextLogQueue ==
    \/ localStorage.logs = <<>> /\ loadLogsDone(TRUE)
    \/ localStorage.logs # <<>> /\ LogCallStep

SpecLogQueue == InitLogQueue /\ [][NextLogQueue]_vars

\* The log queue under addLog, clearLogs and loadLogs in any order; the data
\* source holds a log of any length up to MaxServerLogs.
ServerLog(n) ==
    [k \in 1 .. n |-> [type |-> "info", message |-> "from the data source"]]

InitLog ==
    /\ Fresh
    /\ \E n \in 0 .. MaxServerLogs :
           server = [schedules |-> <<>>, rooms |-> <<>>, logs |-> ServerLog(n)]

AddLogStep ==
    /\ addLog("info", "message")
    /\ UNCHANGED <<allRooms, roomsGraph, schedulesArray, pending,
                   scheduleFetches, server, now, initPc, graphVisualizer>>

NextLog ==
    \/ AddLogStep
    \/ clearLogs
    \/ \E ok \in BOOLEAN : loadLogsDone(ok)

SpecLog == InitLog /\ [][NextLog]_vars

\* Allocation with reloads: rooms are added, bookings are made and the
\* schedule section is opened in any order; the data source holds a ledger of
\* its own, none of whose records was made here.
ServerBookingIds == {"BK0"}

ServerRecords ==
    [date : {"d1"}, start_time : {0}, end_time : {1}, room : LedgerRooms,
     booking_id : ServerBookingIds]

ReloadLedgers == {<<>>} \cup {<<b>> : b \in ServerRecords}

InitReload == Fresh /\ server \in [schedules : ReloadLedgers]

ShowSectionStep ==
    /\ scheduleFetches < MaxFetches
    /\ \E sectionId \in Sections : showSection(sectionId)

NextReload ==
    \/ AddRoomStep
    \/ SubmitStep
    \/ AllocationResume
    \/ ShowSectionStep
    \/ \E ok \in BOOLEAN : loadScheduleDone(ok)

SpecReload == InitReload /\ [][NextReload]_vars

\* Booking identifiers: as the allocation, with the clock and with the
\* identifier that generateBookingId builds from Date.now() and Math.random().
Randoms == {"A1B2C3", "X7Y8Z9"}

generateBookingId(timestamp, random) == <<"BK", timestamp, random>>

IdRequests ==
    {r \in Requests :
        r.capacity = 4 /\ r.building = "" /\ ~r.facilities["projector"]}

SubmitIdStep ==
    /\ Len(logsQueue) + 1 < MaxLogs
    /\ \E formData \in IdRequests, random \in Randoms :
           handleAllocationSubmit(formData, generateBookingId(now, random))

Tick ==
    /\ now < MaxNow
    /\ now' = now + 1
    /\ UNCHANGED <<allRooms, roomsGraph, schedulesArray, logsQueue,
                   localStorage, pending, scheduleFetches, server, initPc,
                   graphVisualizer>>

NextIds == AddRoomStep \/ SubmitIdStep \/ AllocationResume \/ Tick

SpecIds == InitAlloc /\ [][NextIds]_vars

\* The two graphs: rooms are added by the add-room form and the graph
\* section is opened, in any order.
NextVisual ==
    \/ NextGraph
    \/ showSection("graph")

SpecVisual == InitGraph /\ [][NextVisual]_vars

\* Start-up and the add-room form: initializeApp runs against a data source
\* that holds no room, the seed rooms or one room, with or without cached
\* rooms; once it has finished rooms are added.
NoFacility == Facilities(FALSE, FALSE, FALSE, FALSE, FALSE, FALSE)

SeedAddRooms ==
    {SeedRoom(id, b, c, NoFacility) :
        id \in {"101", "201"}, b \in {"Main", "Science"}, c \in {30, 50}}

OneRoom == <<SeedRoom("501", "Arts", 40, NoFacility)>>

ServerRoomLists == {<<>>, SeedRooms, OneRoom}

CachedRooms == {<<>>, Stringify(<<>>), Stringify(OneRoom)}

InitStart ==
    /\ allRooms = <<>>
    /\ roomsGraph = <<>>
    /\ schedulesArray = <<>>
    /\ logsQueue = <<>>
    /\ localStorage \in [rooms : CachedRooms, schedules : {<<>>}, logs : {<<>>}]
    /\ pending = <<>>
    /\ scheduleFetches = 0
    /\ server \in [rooms : ServerRoomLists, schedules : {<<>>}, logs : {<<>>}]
    /\ now = 0
    /\ initPc = "loadRooms"
    /\ graphVisualizer = [nodes |-> <<>>, edges |-> <<>>]

SeedAddRoomStep ==
    /\ initPc = "done"
    /\ Len(logsQueue) < MaxSeedLogs
    /\ \E newRoom \in SeedAddRooms : handleAddRoomSubmit(newRoom)

NextStart ==
    \/ \E ok \in BOOLEAN : InitRooms(ok)
    \/ \E ok \in BOOLEAN : InitSchedule(ok)
    \/ \E ok \in BOOLEAN : InitLogs(ok)
    \/ \E rendered \in BOOLEAN : InitDashboard(rendered)
    \/ \E outcome \in ResetOutcomes : InitReset(outcome)
    \/ \E ok \in BOOLEAN : InitReloadRooms(ok)
    \/ SeedAddRoomStep

SpecStart == InitStart /\ [][NextStart]_vars

----------------------------------------------------------------------------
(* What the claims speak of                                                *)

\* half-open intervals [s1, e1) and [s2, e2) overlap
HalfOpenOverlap(s1, e1, s2, e2) == s1 < e2 /\ e1 > s2

\* room identity is the (room_id, building) pair
SameRoom(r1, r2) == r1.room_id = r2.room_id /\ r1.building = r2.building

\* the ledger holds a record for this room and date overlapping [s, e)
Booked(room, date, s, e) ==
    \E i \in 1 .. Len(schedulesArray) :
        /\ SameRoom(schedulesArray[i].room, room)
        /\ schedulesArray[i].date = date
        /\ HalfOpenOverlap(s, e, schedulesArray[i].start_time,
                           schedulesArray[i].end_time)

\* a room passes the four filters of a request
PassesFilters(room, request) ==
    /\ room.capacity >= request.capacity
    /\ request.building # "" => room.building = request.building
    /\ \A f \in FacilityNames : request.facilities[f] => room.facilities[f]
    /\ ~Booked(room, request.date, request.start_time, request.end_time)

\* allocateRoom has returned and its caller has not resumed yet
Returned == pending # <<>>

Request == pending[1].formData

Result == pending[1].result

\* C1: whenever allocateRoom returns success, the returned room has capacity
\* >= the requested capacity, has every requested facility, is in the requested
\* building when one is given, and has no record in the ledger for that room
\* and date overlapping the requested [start, end).
C1_ReturnedRoomFits ==
    (Returned /\ Result.success) => PassesFilters(Result.room[1], Request)

\* allocateRoom returned a room that already has a booking on that date
C1_Witness ==
    /\ Returned /\ Result.success
    /\ Len(allRooms) > 1
    /\ \E i \in 1 .. Len(schedulesArray) :
           /\ SameRoom(schedulesArray[i].room, Result.room[1])
           /\ schedulesArray[i].date = Request.date

\* C2: from an empty ledger, after any sequence of allocation submissions no
\* two records for the same room and date overlap, and detectConflicts
\* returns the empty list.
C2_NoDoubleBooking ==
    /\ \A i, j \in 1 .. Len(schedulesArray) :
           (i # j /\ SameRoom(schedulesArray[i].room, schedulesArray[j].room)
                  /\ schedulesArray[i].date = schedulesArray[j].date)
           => ~HalfOpenOverlap(schedulesArray[i].start_time, schedulesArray[i].end_time,
                               schedulesArray[j].start_time, schedulesArray[j].end_time)
    /\ detectConflicts = <<>>

\* two bookings of one room on one date are in the ledger
C2_Witness ==
    \E i, j \in 1 .. Len(schedulesArray) :
        /\ i # j
        /\ SameRoom(schedulesArray[i].room, schedulesArray[j].room)
        /\ schedulesArray[i].date = schedulesArray[j].date

\* the rooms of the store that pass the four filters of the request
Candidates ==
    {i \in 1 .. Len(allRooms) : PassesFilters(allRooms[i], Request)}

Waste(i) == Abs(allRooms[i].capacity - Request.capacity)

\* the candidate of least waste that comes first in the store
FirstTightest ==
    CHOOSE i \in Candidates :
        \A j \in Candidates : Waste(i) < Waste(j) \/ (Waste(i) = Waste(j) /\ i <= j)

\* C4: among the rooms that pass all four filters, allocateRoom returns the one
\* that minimises |room.capacity - request.capacity|, and on a tie the one that
\* comes first in the order of allRooms.
C4_TightestFitFirstInStore ==
    (Returned /\ Result.success) =>
        /\ Candidates # {}
        /\ SameRoom(Result.room[1], allRooms[FirstTightest])
        /\ Result.room[1].capacity = allRooms[FirstTightest].capacity

\* C5: allocateRoom returns the "no suitable room" failure only if no room of
\* the store (rooms unique by (room_id, building)) survives all four filters.
C5_FailureOnlyWithoutCandidate ==
    (Returned /\ ~Result.success) => Candidates = {}

\* C6: a record for room_id X in building A never makes the room with room_id X
\* in another building unavailable, and bookings of two different rooms are
\* never reported as a conflicting pair.
C6_IdentityIsIdAndBuilding ==
    /\ \A i \in 1 .. Len(allRooms), d \in Dates, s \in Times, e \in Times :
           (s < e /\ ~checkAvailability(allRooms[i].room_id, d, s, e))
           => Booked(allRooms[i], d, s, e)
    /\ \A k \in 1 .. Len(detectConflicts) :
           SameRoom(schedulesArray[detectConflicts[k].booking1].room,
                    schedulesArray[detectConflicts[k].booking2].room)

\* the adjacency recorded for a room: the list of the node under its room_id
AdjacencyOf(graph, room) == MapGet(graph, room.room_id).adjacentRooms

\* the two adjacency rules, for rooms i and j of the store
Related(i, j) ==
    \/ allRooms[i].building = allRooms[j].building
    \/ 100 * Abs(allRooms[i].capacity - allRooms[j].capacity)
          <= 25 * Max(allRooms[i].capacity, allRooms[j].capacity)

\* the store in another order
Permuted(p) == [k \in 1 .. Len(allRooms) |-> allRooms[p[k]]]

Orders ==
    {p \in [1 .. Len(allRooms) -> 1 .. Len(allRooms)] :
        \A a, b \in 1 .. Len(allRooms) : p[a] = p[b] => a = b}

\* C7: after buildRoomsGraph, for every pair of distinct rooms A and B that are
\* in the same building or whose capacities differ by at most 25% of the
\* larger, B is in A's adjacency and A is in B's; the adjacency sets do not
\* depend on the order of the rooms in the store.
C7_RelatedRoomsAreAdjacent ==
    /\ \A i, j \in 1 .. Len(allRooms) :
           (i # j /\ Related(i, j)) =>
               /\ Includes(AdjacencyOf(roomsGraph, allRooms[i]), allRooms[j].room_id)
               /\ Includes(AdjacencyOf(roomsGraph, allRooms[j]), allRooms[i].room_id)
    /\ \A p \in Orders :
           LET graph == buildRoomsGraph(Permuted(p)) IN
           \A i \in 1 .. Len(allRooms) :
               Range(AdjacencyOf(graph, allRooms[i]))
                   = Range(AdjacencyOf(roomsGraph, allRooms[i]))

\* three rooms, two of them in different buildings with capacities exactly 25%
\* apart, two of them in one building with capacities far apart
C7_Witness ==
    /\ Len(allRooms) = 3
    /\ \A i, j \in 1 .. 3 : allRooms[i].room_id = allRooms[j].room_id => i = j
    /\ \E i, j \in 1 .. 3 :
           /\ allRooms[i].building # allRooms[j].building
           /\ allRooms[i].capacity = 3 /\ allRooms[j].capacity = 4
           /\ Includes(AdjacencyOf(roomsGraph, allRooms[i]), allRooms[j].room_id)
    /\ \E i, j \in 1 .. 3 :
           /\ i # j /\ allRooms[i].building = allRooms[j].building
           /\ allRooms[i].capacity = 3 /\ allRooms[j].capacity = 8

\* C8: a room B appears in the adjacency of room A only if B is another room
\* than A and they share a building or their capacities differ by at most 25%
\* of the larger; and adjacency is symmetric.
C8_AdjacentOnlyIfRelated ==
    \A i, j \in 1 .. Len(allRooms) :
        /\ Includes(AdjacencyOf(roomsGraph, allRooms[i]), allRooms[j].room_id)
               => (i # j /\ Related(i, j))
        /\ Includes(AdjacencyOf(roomsGraph, allRooms[i]), allRooms[j].room_id)
               <=> Includes(AdjacencyOf(roomsGraph, allRooms[j]), allRooms[i].room_id)

\* C9: the adjacency list recorded for each room contains no room identifier
\* more than once.
C9_NoDuplicateNeighbour ==
    \A n \in 1 .. Len(roomsGraph) :
        \A a, b \in 1 .. Len(roomsGraph[n].adjacentRooms) :
            roomsGraph[n].adjacentRooms[a] = roomsGraph[n].adjacentRooms[b] => a = b

\* C3: checkAvailability reports the room unavailable exactly when the ledger
\* holds a record for that room_id and date with start < existingEnd and
\* end > existingStart; a request that partly overlaps a booking is rejected
\* and one that abuts a booking is accepted.
C3_UnavailableIffHalfOpenOverlap ==
    \A roomId \in RoomIds, d \in Dates, s \in LedgerTimes, e \in LedgerTimes :
        ~checkAvailability(roomId, d, s, e)
        <=> \E i \in 1 .. Len(schedulesArray) :
                /\ schedulesArray[i].room.room_id = roomId
                /\ schedulesArray[i].date = d
                /\ HalfOpenOverlap(s, e, schedulesArray[i].start_time,
                                   schedulesArray[i].end_time)

\* one booked room for which a request ending inside the booking is rejected
\* and a request ending where the booking starts is accepted
C3_Witness ==
    /\ Len(schedulesArray) = 1
    /\ LET b == schedulesArray[1] IN
       \E s \in LedgerTimes, e \in LedgerTimes :
           /\ s < b.start_time /\ b.start_time < e /\ e < b.end_time
           /\ ~checkAvailability(b.room.room_id, b.date, s, e)
           /\ checkAvailability(b.room.room_id, b.date, s, b.start_time)

\* the pairs of records of one room and date whose intervals overlap
OverlappingPairs ==
    {p \in (1 .. Len(schedulesArray)) \X (1 .. Len(schedulesArray)) :
        /\ p[1] < p[2]
        /\ SameRoom(schedulesArray[p[1]].room, schedulesArray[p[2]].room)
        /\ schedulesArray[p[1]].date = schedulesArray[p[2]].date
        /\ HalfOpenOverlap(schedulesArray[p[1]].start_time, schedulesArray[p[1]].end_time,
                           schedulesArray[p[2]].start_time, schedulesArray[p[2]].end_time)}

\* C10: detectConflicts returns exactly one entry for each unordered pair of
\* distinct records that share room and date and overlap, and no other entry.
C10_ExactlyTheOverlappingPairs ==
    /\ {<<detectConflicts[k].booking1, detectConflicts[k].booking2>> :
            k \in 1 .. Len(detectConflicts)} = OverlappingPairs
    /\ Len(detectConflicts) = Cardinality(OverlappingPairs)

\* C11: in every reachable state, after any sequence of addLog, clearLogs
\* and loadLogs (from the data source or from the local cache), the log queue
\* holds at most 100 entries.
C11_AtMostLogLimit == Len(logsQueue) <= LogLimit

\* the entries of the first n calls, newest first
Calls(n) == [k \in 1 .. n |-> [type |-> "info", message |-> n + 1 - k]]

FirstN(s, n) == SubSeq(s, 1, IF Len(s) < n THEN Len(s) ELSE n)

\* C12: addLog puts the new entry at the front and keeps the order of the
\* entries already there, dropping the tail entry once 100 are held: after n
\* calls the queue is the first 100 of the n entries, newest first, followed
\* by the entries that were there before the calls.
C12_NewestFirstOldestEvicted ==
    logsQueue =
        IF localStorage.logs = <<>>
        THEN <<>>
        ELSE FirstN(Calls(now) \o server.logs, LogLimit)

\* more than 100 calls were made, on an empty queue or on one that held
\* entries, so that entries of both kinds have been evicted
C12_Witness ==
    /\ now > LogLimit
    /\ Len(logsQueue) = LogLimit
    /\ logsQueue[1].message = now
    /\ logsQueue[LogLimit].message = now + 1 - LogLimit

\* C13: a BookingRecord appended by a successful allocation stays in the
\* ledger, with its fields unchanged, in every later state, whatever
\* submissions, schedule reloads and section switches follow.
C13_AllocatedRecordsStay ==
    [][\A i \in 1 .. Len(schedulesArray) :
           schedulesArray[i].booking_id \in BookingIds
               => \E j \in 1 .. Len(schedulesArray') :
                      schedulesArray'[j] = schedulesArray[i]]_vars

\* no two rooms of the store have the same (room_id, building) pair
NoDuplicatePair(rooms) ==
    \A i, j \in 1 .. Len(rooms) : SameRoom(rooms[i], rooms[j]) => i = j

\* C14: a room whose (room_id, building) pair is in the Room Store is
\* rejected by handleAddRoomSubmit, so from the seed data on the store never
\* holds two rooms with the same pair, and it only grows by a room that was
\* not there, together with its log entry.
C14_NoDuplicatePair ==
    /\ [](NoDuplicatePair(allRooms))
    /\ [][initPc = "done" /\ initPc' = "done"
              => /\ allRooms' = Append(allRooms, allRooms'[Len(allRooms')])
                 /\ ~\E i \in 1 .. Len(allRooms) :
                        SameRoom(allRooms[i], allRooms'[Len(allRooms')])
                 /\ Len(logsQueue') = Len(logsQueue) + 1
                 /\ roomsGraph' # roomsGraph]_vars

\* the seed rooms and one more room under the room_id of a seed room, in
\* another building; the same room_id in the seed room's building is in
\* the form's choices
C14_Witness ==
    /\ initPc = "done"
    /\ Len(allRooms) = Len(SeedRooms) + 1
    /\ SubSeq(allRooms, 1, Len(SeedRooms)) = SeedRooms
    /\ \E i \in 1 .. Len(SeedRooms) :
           /\ allRooms[i].room_id = allRooms[Len(allRooms)].room_id
           /\ allRooms[i].building # allRooms[Len(allRooms)].building
    /\ \E newRoom \in SeedAddRooms :
           \E i \in 1 .. Len(allRooms) : SameRoom(allRooms[i], newRoom)

\* 7 rooms across the 4 buildings
IsSeedSet(rooms) ==
    /\ Len(rooms) = 7
    /\ {rooms[i].building : i \in 1 .. Len(rooms)}
           = {"Main", "Science", "Engineering", "Arts"}

\* C16: when initializeApp finds the Room Store empty after loading rooms,
\* the store holds the seed set by the time initialization completes,
\* whatever the outcome of the reset request.
C16_EmptyStoreIsSeeded ==
    [][(initPc = "reset" \/ initPc = "reloadRooms") /\ initPc' = "done"
           => IsSeedSet(allRooms')]_vars

\* C18: between handlers roomsGraph holds exactly one node per room of
\* allRooms, carrying that room's building, capacity and facilities, with
\* the adjacency that buildRoomsGraph derives from the current allRooms.
C18_GraphFollowsStore ==
    /\ Len(roomsGraph) = Len(allRooms)
    /\ \A i \in 1 .. Len(allRooms) :
           \E n \in 1 .. Len(roomsGraph) :
               [roomsGraph[n] EXCEPT !.adjacentRooms = <<>>]
                   = MakeNode(allRooms[i])
    /\ roomsGraph = buildRoomsGraph(allRooms)

\* C15: a request whose end time is not after its start time is rejected
\* before allocateRoom is invoked, so no call is ever in flight for it and
\* nothing is logged or booked for it; an allocation that fails comes back
\* as an outcome without a room and leaves the Booking Ledger unchanged.
C15_RejectedLeavesLedger ==
    /\ [](pending # <<>>
             => pending[1].formData.start_time < pending[1].formData.end_time)
    /\ [](\A i \in 1 .. Len(schedulesArray) :
             schedulesArray[i].start_time < schedulesArray[i].end_time)
    /\ [][pending # <<>> /\ ~pending[1].result.success
              => /\ pending[1].result.room = <<>>
                 /\ schedulesArray' = schedulesArray
                 /\ logsQueue'[1].type = "error"]_vars
    /\ [][pending = <<>> /\ logsQueue' # logsQueue /\ allRooms' = allRooms
              => pending' # <<>>]_vars

\* an allocation has failed on a store whose room is booked: the failure is
\* logged and the ledger holds the earlier booking only
C15_Witness ==
    /\ pending = <<>>
    /\ Len(schedulesArray) = 1
    /\ Len(logsQueue) > 0
    /\ logsQueue[1].type = "error"
    /\ \E formData \in Requests : formData.start_time >= formData.end_time

\* C19: between the availability check of a submission and the append of
\* its record no other submission is checked or appended: at most one
\* submission is suspended, the room it was given is still free while it
\* is, and the next thing to happen is its own append or failure.
C19_CheckAndAppendAreOneTurn ==
    /\ [](Len(pending) <= 1)
    /\ [](pending # <<>> /\ pending[1].result.success
             => checkAvailability(pending[1].result.room[1].room_id,
                                  pending[1].formData.date,
                                  pending[1].formData.start_time,
                                  pending[1].formData.end_time))
    /\ [][pending # <<>>
              => /\ pending' = <<>>
                 /\ schedulesArray' =
                        IF pending[1].result.success
                        THEN Append(schedulesArray,
                                    BookingRecord(pending[1].formData,
                                                  pending[1].result))
                        ELSE schedulesArray]_vars

\* a submission is suspended with a room in hand, after an earlier booking,
\* and a request for that room, date and an overlapping interval exists
C19_Witness ==
    /\ pending # <<>>
    /\ pending[1].result.success
    /\ Len(schedulesArray) > 0
    /\ \E formData \in Requests :
           /\ formData.date = pending[1].formData.date
           /\ formData # pending[1].formData
           /\ HalfOpenOverlap(formData.start_time, formData.end_time,
                              pending[1].formData.start_time,
                              pending[1].formData.end_time)
           /\ allocateRoom(formData, "BK1").success
           /\ allocateRoom(formData, "BK1").room = pending[1].result.room

\* C17: no two BookingRecords of the ledger carry the same booking_id,
\* whenever the allocations were made.
C17_BookingIdsUnique ==
    \A i, j \in 1 .. Len(schedulesArray) :
        schedulesArray[i].booking_id = schedulesArray[j].booking_id => i = j

\* the visualizer was built from the store as it is now
VisualizerCurrent == graphVisualizer = buildGraph(allRooms)

\* the unordered pairs of positions whose rooms are related
RelatedPositions ==
    {p \in (1 .. Len(allRooms)) \X (1 .. Len(allRooms)) :
        p[1] < p[2] /\ Related(p[1], p[2])}

\* C20: for every room of the store the adjacent room identifiers that
\* buildGraph records at the room's node are those that buildRoomsGraph
\* records for the room, and buildGraph's edge list holds exactly one edge
\* for each adjacent unordered pair.
C20_BuildersAgree ==
    VisualizerCurrent /\ NoDuplicatePair(allRooms)
        => /\ \A i \in 1 .. Len(allRooms) :
                  Range(graphVisualizer.nodes[i].adjacentRooms)
                      = Range(AdjacencyOf(roomsGraph, allRooms[i]))
           /\ {<<graphVisualizer.edges[e].from + 1,
                  graphVisualizer.edges[e].to + 1>> :
                   e \in 1 .. Len(graphVisualizer.edges)} = RelatedPositions
           /\ Len(graphVisualizer.edges) = Cardinality(RelatedPositions)

====
